---- MODULE Spec2Model ----
(***************************************************************************)
(* Model of graphql-rate-limit-redis-esm: the @rateLimit directive         *)
(* transformer of src/src/directive.ts and the key generators of types.ts. *)
(*                                                                         *)
(* One engine instance (one createRateLimitDirective call) serves NumInv   *)
(* invocations of wrapped resolvers.  JavaScript runs them cooperatively:  *)
(* an invocation runs without interruption up to `await                    *)
(* limiter.consume(key)`, is suspended while the store handles the         *)
(* request, resumes with the store's answer, and may be suspended once     *)
(* more inside an asynchronous resolver.                                   *)
(*                                                                         *)
(* Strings are sequences of text fragments; `includes` and the template    *)
(* literals work on those sequences.  A JavaScript number is a record      *)
(* [i, f] standing for i + f/10, so that non-integers can be told apart.   *)
(***************************************************************************)
EXTENDS Integers, Sequences, FiniteSets, TLC

\* ------------------------------------------------------------------ bounds
\* number of wrapped-resolver invocations of one run
NumInv == 2

\* ------------------------------------------------------- program constants
MAX_LIMITER_CACHE_SIZE == 100
MAX_DURATION == 31536000
MAX_LIMIT == 1000000

\* ------------------------------------------------------- JavaScript values
Num(n) == [i |-> n, f |-> 0]
Frac(n, tenths) == [i |-> n, f |-> tenths]

\* Number.isInteger
IsInteger(x) == x.f = 0
\* x <= 0
LeqZero(x) == x.i < 0 \/ (x.i = 0 /\ x.f = 0)
\* x > m, for an integer m
GreaterThan(x, m) == x.i > m \/ (x.i = m /\ x.f > 0)

DigitChar == <<"0", "1", "2", "3", "4", "5", "6", "7", "8", "9">>

RECURSIVE DigitsOf(_)
\* decimal digits of a natural number, most significant first
DigitsOf(n) ==
  IF n < 10 THEN <<DigitChar[n + 1]>>
  ELSE Append(DigitsOf(n \div 10), DigitChar[(n % 10) + 1])

\* `${x}` for a number x
NumberToString(x) ==
  IF x.f = 0
    THEN IF x.i < 0 THEN <<"-">> \o DigitsOf(0 - x.i) ELSE DigitsOf(x.i)
    ELSE IF x.i < 0
      THEN <<"-">> \o DigitsOf(0 - x.i - 1) \o <<".">> \o DigitsOf(10 - x.f)
      ELSE DigitsOf(x.i) \o <<".">> \o DigitsOf(x.f)

\* String.prototype.includes, on fragment sequences
includes(message, searchString) ==
  \E k \in 1..Len(message) : message[k] = searchString

\* Math.floor for Math.ceil
FloorSeconds(ms) == ms \div 1000

\* Math.ceil(ms / 1000), ms >= 0
CeilSeconds(ms) == (ms + 999) \div 1000

\* ---------------------------------------------------------- thrown values
\* Every value that can be thrown or rejected with.  cls "none" stands for
\* "nothing was thrown", cls "undefined" for a rejection with undefined.
ErrorValue(cls, message, hasMs, ms, code, status, retryAfter) ==
  [cls |-> cls, message |-> message, hasMs |-> hasMs, msBeforeNext |-> ms,
   code |-> code, status |-> status, retryAfter |-> retryAfter]

NoError == ErrorValue("none", <<>>, FALSE, 0, "", 0, 0)
UndefinedValue == ErrorValue("undefined", <<>>, FALSE, 0, "", 0, 0)
PlainError(message) == ErrorValue("Error", message, FALSE, 0, "", 0, 0)
TypeErrorValue ==
  ErrorValue("TypeError", <<"Cannot read properties of undefined">>,
             FALSE, 0, "", 0, 0)
\* rate-limiter-flexible rejects a consume over quota with a value that
\* carries msBeforeNext
RateLimiterRes(message, ms) == ErrorValue("Error", message, TRUE, ms, "", 0, 0)

QuotaExceeded(ms) ==
  ErrorValue("GraphQLError", <<"Rate limit exceeded">>, FALSE, 0,
             "RATE_LIMITED", 429, CeilSeconds(ms))
ServiceUnavailable ==
  ErrorValue("GraphQLError", <<"Rate limiting service unavailable">>, FALSE, 0,
             "RATE_LIMIT_SERVICE_ERROR", 503, 0)

ConstructorError == PlainError(<<"storeClient is not set">>)

\* ------------------------------------------------------- validateDirectiveArgs
\* validateDirectiveArgs without its checks
validateDirectiveArgsNoCheck(args) == NoError

\* validateDirectiveArgs with `args.limit < 0` for `args.limit <= 0`
validateDirectiveArgsZeroLimit(args) ==
  IF ~IsInteger(args.limit) \/ args.limit.i < 0
    THEN PlainError(<<"Invalid rate limit: ">> \o NumberToString(args.limit)
                    \o <<". Must be a positive integer.">>)
  ELSE IF ~IsInteger(args.duration) \/ LeqZero(args.duration)
    THEN PlainError(<<"Invalid duration: ">> \o NumberToString(args.duration)
                    \o <<". Must be a positive integer (seconds).">>)
  ELSE IF GreaterThan(args.duration, MAX_DURATION)
    THEN PlainError(<<"Invalid duration: ">> \o NumberToString(args.duration)
                    \o <<". Maximum allowed is 31536000 seconds (1 year).">>)
  ELSE IF GreaterThan(args.limit, MAX_LIMIT)
    THEN PlainError(<<"Invalid limit: ">> \o NumberToString(args.limit)
                    \o <<". Maximum allowed is 1000000.">>)
  ELSE NoError

\* The error validateDirectiveArgs throws, or NoError when it returns.
validateDirectiveArgs(args) ==
  IF ~IsInteger(args.limit) \/ LeqZero(args.limit)
    THEN PlainError(<<"Invalid rate limit: ">> \o NumberToString(args.limit)
                    \o <<". Must be a positive integer.">>)
  ELSE IF ~IsInteger(args.duration) \/ LeqZero(args.duration)
    THEN PlainError(<<"Invalid duration: ">> \o NumberToString(args.duration)
                    \o <<". Must be a positive integer (seconds).">>)
  ELSE IF GreaterThan(args.duration, MAX_DURATION)
    THEN PlainError(<<"Invalid duration: ">> \o NumberToString(args.duration)
                    \o <<". Maximum allowed is 31536000 seconds (1 year).">>)
  ELSE IF GreaterThan(args.limit, MAX_LIMIT)
    THEN PlainError(<<"Invalid limit: ">> \o NumberToString(args.limit)
                    \o <<". Maximum allowed is 1000000.">>)
  ELSE NoError

\* ------------------------------------------------------------ the schema
\* Strings that are put together are sequences of fragments: a type name or
\* a field name is the sequence of its characters, or one fragment when
\* only its identity matters.
Args(duration, limit) == [duration |-> duration, limit |-> limit]
Field(parentType, fieldName, args) ==
  [parentType |-> parentType, fieldName |-> fieldName, args |-> args]

\* the annotated fields the invocations of a run are made on
Fields ==
  { Field(<<"Query">>, <<"a">>, Args(Num(60), Num(1))),
    Field(<<"Mutation">>, <<"a">>, Args(Num(60), Num(1))),
    Field(<<"Query">>, <<"c">>, Args(Num(1), Num(3))),
    Field(<<"Query">>, <<"g">>, Args(Num(60), Num(0))),
    Field(<<"Query">>, <<"k">>, Args(Frac(2, 5), Num(5))) }

\* a field of the schema without @rateLimit; its args slot is never read
UnannotatedFields == { Field(<<"Query">>, <<"u">>, Args(Num(0), Num(0))) }

\* an annotated field that declares no resolver of its own
DefaultResolvedFields == { Field(<<"User">>, <<"name">>, Args(Num(60), Num(1))) }

DIRECTIVE_NAME == "rateLimit"

\* the directives a field carries in the type definitions
DirectivesOf(f) ==
  IF f \in UnannotatedFields
    THEN <<>>
    ELSE <<[name |-> DIRECTIVE_NAME, args |-> f.args]>>

\* getDirective(schema, fieldConfig, name): the directives of that name
getDirective(f, name) == SelectSeq(DirectivesOf(f), LAMBDA d : d.name = name)

\* the transformer without `if (!directive) return fieldConfig`
IsWrappedAlways(f) == TRUE

\* the transformer replaces fieldConfig.resolve of the field
IsWrapped(f) == Len(getDirective(f, DIRECTIVE_NAME)) > 0

\* fieldConfig.resolve is declared
HasResolver(f) == f \notin DefaultResolvedFields

\* JS values a resolver returns; a source or an arguments object is its
\* kind (typeof, with null apart) and its properties, <<name, value>> pairs
Value(v) == <<v>>
Undefined == <<>>
Source(kind, props) == [kind |-> kind, props |-> props]
RootSource == Source("undefined", {})
NoArguments == Source("object", {})
typeof(source) ==
  IF source.kind \in {"object", "null"} THEN "object" ELSE source.kind
Property(source, name) ==
  IF \E p \in source.props : p[1] = name
    THEN (CHOOSE p \in source.props : p[1] = name)[2]
    ELSE Undefined

\* the numbers getLimiter is called with in the runs of the registry
LimitValues ==
  { Num(0), Num(0 - 1), Frac(1, 5), Num(3), Num(23),
    Num(MAX_LIMIT), Num(MAX_LIMIT + 1) }
DurationValues ==
  { Num(0), Num(0 - 5), Frac(2, 5), Num(1), Num(12),
    Num(MAX_DURATION), Num(MAX_DURATION + 1) }
ArgsValues == { Args(d, l) : d \in DurationValues, l \in LimitValues }

\* caller contexts: what a caller-supplied key generator finds in them
Context(userId, fails, error) ==
  [userId |-> userId, fails |-> fails, error |-> error]

Contexts ==
  { Context("u1", FALSE, NoError),
    Context("", TRUE, TypeErrorValue),
    Context("", TRUE, PlainError(<<"Redis", " session lookup failed">>)) }
NoContext == Context("", FALSE, NoError)

\* the contexts a run draws from: the built-in generator reads no context
\* and never throws, so the failing contexts only matter to a custom one
ContextsOf(kg) ==
  IF kg = "default" THEN { c \in Contexts : ~c.fails } ELSE Contexts

\* --------------------------------------------------------- key generators
\* the two names run together: `${info.parentType.name}${info.fieldName}`
defaultKeyGeneratorNoSeparator(directiveArgs, source, args, context, info) ==
  [thrown |-> NoError, key |-> info.parentType \o info.fieldName]

\* the parent value in the key: `${typeof source}:${parent}.${field}`
defaultKeyGeneratorPerSource(directiveArgs, source, args, context, info) ==
  [thrown |-> NoError,
   key |-> <<source.kind, ":">> \o info.parentType \o <<".">>
             \o info.fieldName]

\* `${info.parentType.name}.${info.fieldName}`
defaultKeyGenerator(directiveArgs, source, args, context, info) ==
  [thrown |-> NoError, key |-> info.parentType \o <<".">> \o info.fieldName]

\* what the caller's resolver of an identity finds in a context: a string,
\* null or undefined
JsString(chars) == [kind |-> "string", chars |-> chars]
JsNull == [kind |-> "null", chars |-> <<>>]
JsUndefined == [kind |-> "undefined", chars |-> <<>>]

\* the contexts of the key generator tests: the user id, the address and
\* the identifiers object (its properties in creation order) found in them
KeyContext(userId, ip, identifiers) ==
  [userId |-> userId, ip |-> ip, identifiers |-> identifiers]
getUserId(context) == context.userId
getIP(context) == context.ip
getIdentifiers(context) == context.identifiers

\* `value ?? fallback`: only null and undefined give way to the fallback
OrElseNullish(value, fallback) ==
  IF value.kind = "string" THEN value.chars ELSE fallback

\* `value || fallback`: every falsy value gives way, the empty string too
OrElse(value, fallback) ==
  IF value.kind = "string" /\ value.chars # <<>>
    THEN value.chars
    ELSE fallback

\* `user:${userId}:${info.parentType.name}.${info.fieldName}`
createUserKeyGenerator(directiveArgs, source, args, context, info) ==
  LET userId == OrElse(getUserId(context), <<"anonymous">>)
  IN  [thrown |-> NoError,
       key |-> <<"user:">> \o userId \o <<":">> \o info.parentType
                 \o <<".">> \o info.fieldName]

\* the key without the operation: `ip:${ip}`
createIPKeyGeneratorNoField(directiveArgs, source, args, context, info) ==
  [thrown |-> NoError,
   key |-> <<"ip:">> \o OrElse(getIP(context), <<"unknown">>)]

\* `ip:${ip}:${info.parentType.name}.${info.fieldName}`
createIPKeyGenerator(directiveArgs, source, args, context, info) ==
  LET ip == OrElse(getIP(context), <<"unknown">>)
  IN  [thrown |-> NoError,
       key |-> <<"ip:">> \o ip \o <<":">> \o info.parentType
                 \o <<".">> \o info.fieldName]

\* a property name that is a canonical array index: decimal digits without
\* a leading zero, at most 2^32 - 2 = 4294967294
IsDigit(c) == \E d \in 1..10 : DigitChar[d] = c
RECURSIVE IndexValue(_)
IndexValue(name) ==
  IF name = <<>>
    THEN 0
    ELSE IndexValue(SubSeq(name, 1, Len(name) - 1)) * 10
           + (CHOOSE d \in 0..9 : DigitChar[d + 1] = name[Len(name)])
\* the first nine digits and the tenth one, which order names of one length
IndexHead(name) ==
  IndexValue(SubSeq(name, 1, IF Len(name) < 9 THEN Len(name) ELSE 9))
IndexLast(name) == IF Len(name) < 10 THEN 0 ELSE IndexValue(<<name[10]>>)
IsArrayIndex(name) ==
  /\ Len(name) \in 1..10
  /\ \A k \in 1..Len(name) : IsDigit(name[k])
  /\ Len(name) = 1 \/ name[1] # "0"
  /\ \/ IndexHead(name) < 429496729
     \/ IndexHead(name) = 429496729 /\ IndexLast(name) < 5
     \/ Len(name) < 10
IndexLess(x, y) ==
  \/ Len(x) < Len(y)
  \/ /\ Len(x) = Len(y)
     /\ \/ IndexHead(x) < IndexHead(y)
        \/ IndexHead(x) = IndexHead(y) /\ IndexLast(x) < IndexLast(y)

\* Object.entries(object): array-index names in ascending order, then the
\* other names in creation order
ObjectEntries(object) ==
  SortSeq(SelectSeq(object, LAMBDA e : IsArrayIndex(e[1])),
          LAMBDA x, y : IndexLess(x[1], y[1]))
    \o SelectSeq(object, LAMBDA e : ~IsArrayIndex(e[1]))

\* the filter keeping truthy values only: the empty string is dropped too
NotNullishTruthy(value) == value.kind = "string" /\ value.chars # <<>>

\* `value != null`
NotNullish(value) == value.kind \notin {"null", "undefined"}

\* parts.join(separator)
RECURSIVE Join(_, _)
Join(parts, separator) ==
  IF parts = <<>> THEN <<>>
  ELSE IF Len(parts) = 1 THEN parts[1]
  ELSE parts[1] \o separator \o Join(Tail(parts), separator)

\* `${identifierParts}:${info.parentType.name}.${info.fieldName}`
createCompositeKeyGenerator(directiveArgs, source, args, context, info) ==
  LET identifiers == getIdentifiers(context)
      kept == SelectSeq(ObjectEntries(identifiers),
                        LAMBDA e : NotNullish(e[2]))
      parts == [k \in 1..Len(kept) |->
                  kept[k][1] \o <<":">> \o kept[k][2].chars]
  IN  [thrown |-> NoError,
       key |-> Join(parts, <<":">>) \o <<":">> \o info.parentType
                 \o <<".">> \o info.fieldName]

\* a caller-supplied generator, README "Per user": `user:${context.userId}`;
\* being caller code it may throw
customKeyGenerator(directiveArgs, source, args, context, info) ==
  IF context.fails
    THEN [thrown |-> context.error, key |-> <<>>]
    ELSE [thrown |-> NoError, key |-> <<"user:", context.userId>>]

KeyGenerators == {"default", "custom"}

\* the configured generator ignored: the built-in one is always called
CallKeyGeneratorDefault(kg, directiveArgs, source, args, context, info) ==
  defaultKeyGenerator(directiveArgs, source, args, context, info)

\* the keyGenerator the engine was configured with, applied
CallKeyGenerator(kg, directiveArgs, source, args, context, info) ==
  IF kg = "default"
    THEN defaultKeyGenerator(directiveArgs, source, args, context, info)
    ELSE customKeyGenerator(directiveArgs, source, args, context, info)

Keys ==
  { CallKeyGenerator(kg, f.args, RootSource, NoArguments, c, f).key :
      kg \in KeyGenerators,
      f \in Fields \cup DefaultResolvedFields \cup UnannotatedFields,
      c \in Contexts } \ {<<>>}

\* ----------------------------------------------------------- the registry
\* config.limiterOptions of the engine, spread into every constructor call
VARIABLE limiterOptions

\* the options of the documented configuration: the Redis client alone
StoreOptions == [storeClient |-> "redis"]

\* configurations with further options of the limiter class
LimiterOptionsValues ==
  { StoreOptions,
    [storeClient |-> "redis", keyPrefix |-> "rl"],
    [storeClient |-> "redis", points |-> Num(1000)],
    [storeClient |-> "redis", duration |-> Num(1)] }

\* { duration: args.duration, points: args.limit, ...limiterOptions }
ConstructorOptions(args) ==
  limiterOptions @@ [duration |-> args.duration, points |-> args.limit]

Limiter(id, options) == [id |-> id, options |-> options]
NoLimiter == Limiter(0, StoreOptions)

\* the cache key without its separator
CacheKeyNoSeparator(args) ==
  NumberToString(args.duration) \o NumberToString(args.limit)

\* `${args.duration}:${args.limit}`
CacheKey(args) ==
  NumberToString(args.duration) \o <<":">> \o NumberToString(args.limit)

Entry(key, limiter) == [key |-> key, limiter |-> limiter]

\* a lookup that never finds the key
MapHasNever(cache, key) == FALSE

\* a lookup on a snapshot taken before the latest insert
MapHasStale(cache, key) == \E k \in 1..(Len(cache) - 1) : cache[k].key = key

\* Map.has / Map.get / Map.delete / Map.set on the insertion-ordered Map
MapHas(cache, key) == \E k \in 1..Len(cache) : cache[k].key = key
MapGet(cache, key) ==
  (CHOOSE k \in 1..Len(cache) : cache[k].key = key) 
MapDelete(cache, key) == SelectSeq(cache, LAMBDA e : e.key # key)
MapSet(cache, key, limiter) ==
  IF MapHas(cache, key)
    THEN [k \in 1..Len(cache) |->
            IF cache[k].key = key THEN Entry(key, limiter) ELSE cache[k]]
    ELSE Append(cache, Entry(key, limiter))

\* the hit path without the delete: the entry keeps its place
TouchInPlace(cache, key, limiter) == MapSet(cache, key, limiter)

\* delete and re-add: the entry moves to the end (most recently used)
Touch(cache, key, limiter) == MapSet(MapDelete(cache, key), key, limiter)

\* the eviction step dropping the newest entry for the oldest
EvictNewest(cache) ==
  IF Len(cache) >= MAX_LIMITER_CACHE_SIZE
    THEN LET newestKey == cache[Len(cache)].key
         IN  IF Len(newestKey) > 0 THEN MapDelete(cache, newestKey) ELSE cache
    ELSE cache

\* the eviction step with `>` for `>=`
EvictOldestTooLate(cache) ==
  IF Len(cache) > MAX_LIMITER_CACHE_SIZE
    THEN LET oldestKey == cache[1].key
         IN  IF Len(oldestKey) > 0 THEN MapDelete(cache, oldestKey) ELSE cache
    ELSE cache

\* the cache after the eviction step of getLimiter
EvictOldest(cache) ==
  IF Len(cache) >= MAX_LIMITER_CACHE_SIZE
    THEN LET oldestKey == cache[1].key
         IN  IF Len(oldestKey) > 0 THEN MapDelete(cache, oldestKey) ELSE cache
    ELSE cache

\* getLimiter(args) on the cache `cache`, when the next constructed limiter
\* gets identity `id` and the constructor throws iff ctorThrows.
\* thrown: what getLimiter throws (NoError: it returns limiter);
\* cache: the cache it leaves; constructed: whether a limiter was built.
getLimiter(cache, args, id, ctorThrows) ==
  LET invalid == validateDirectiveArgs(args)
      cacheKey == CacheKey(args)
  IN  IF invalid # NoError
        THEN [thrown |-> invalid, limiter |-> NoLimiter, cache |-> cache,
              constructed |-> FALSE]
      ELSE IF MapHas(cache, cacheKey)
        THEN LET limiter == cache[MapGet(cache, cacheKey)].limiter
             IN  [thrown |-> NoError, limiter |-> limiter,
                  cache |-> Touch(cache, cacheKey, limiter),
                  constructed |-> FALSE]
      ELSE LET evicted == EvictOldest(cache)
           IN  IF ctorThrows
                 THEN [thrown |-> ConstructorError, limiter |-> NoLimiter,
                       cache |-> evicted, constructed |-> FALSE]
                 ELSE LET limiter == Limiter(id, ConstructorOptions(args))
                      IN  [thrown |-> NoError, limiter |-> limiter,
                           cache |-> MapSet(evicted, cacheKey, limiter),
                           constructed |-> TRUE]

\* -------------------------------------------------------- the counter store
\* points already consumed < points of the limiter: the store's atomic
\* check-and-increment admits the call
StoreAdmits(count, limiter) == count < limiter.options.points.i

\* what limiter.consume(key) can be rejected with
MsValues == {0, 5000}
QuotaRejections ==
  { RateLimiterRes(<<"Rate limit exceeded">>, ms) : ms \in MsValues }
StoreFailures ==
  { PlainError(<<"Redis", " connection failed">>),
    PlainError(<<"connect ECONNREFUSED">>) }

\* what the protected resolver can throw or reject with
ResolveErrors ==
  { ErrorValue("GraphQLError", <<"Custom error">>, FALSE, 0, "", 0, 0),
    PlainError(<<"Redis", " is down">>) }

\* what a declared resolver returns, as `limited: () => "limited"`
ResolverValue(f) == Value(f.fieldName)

\* defaultFieldResolver(source, _args, _contextValue, info)
defaultFieldResolver(source, info) ==
  IF typeof(source) = "object" /\ source.kind # "null"
    THEN Property(source, info.fieldName)
    ELSE Undefined

\* the argument list of the call with two arguments swapped
ResolveArgumentsSwapped(source, resolverArgs, context, info) ==
  <<resolverArgs, source, context, info>>

\* resolve(source, resolverArgs, context, info): the argument list
ResolveArguments(source, resolverArgs, context, info) ==
  <<source, resolverArgs, context, info>>

\* ------------------------------------------------------- the error handlers
\* every rejection of consume is swallowed
ConsumeSucceededAlways(answer) == TRUE

\* only quota rejections stop the call: the wrapper fails open on the rest
ConsumeSucceededFailOpen(answer) == ~answer.hasMs

\* `await limiter.consume(key)` does not throw: control reaches resolve(...)
ConsumeSucceeded(answer) == answer = NoError

\* the inner catch testing `rateLimitError.msBeforeNext` for truthiness
InnerCatchTruthy(rateLimitError) ==
  IF rateLimitError.cls # "undefined" /\ rateLimitError.hasMs
       /\ rateLimitError.msBeforeNext # 0
    THEN QuotaExceeded(rateLimitError.msBeforeNext)
    ELSE rateLimitError

\* the inner catch without its test: every rejection is thrown on as it is
InnerCatchRethrow(rateLimitError) == rateLimitError

\* inner catch of the wrapped resolver: the value it throws on
InnerCatch(rateLimitError) ==
  IF rateLimitError.cls # "undefined" /\ rateLimitError.hasMs
    THEN QuotaExceeded(rateLimitError.msBeforeNext)
    ELSE rateLimitError

\* outer catch of the wrapped resolver: the value the call is rejected with
OuterCatch(error) ==
  IF error.cls = "undefined"
    THEN TypeErrorValue
  ELSE IF includes(error.message, "Redis")
    THEN ServiceUnavailable
  ELSE error

\* ------------------------------------------------------------------ state
VARIABLES
  keyGenerator,   \* config.keyGenerator of the engine
  limiterCache,   \* the Map of getLimiter, in insertion order
  instanceCount,  \* limiters constructed so far
  consumed,       \* the store: points consumed per key in the current window
  inv,            \* the invocations of wrapped resolvers
  calls,          \* getLimiter calls made one by one (runs of the registry)
  lastCall,       \* the last of them: its arguments and what came of it
  returned,       \* history: which limiter was returned for which arguments
  otherEngine,    \* a second engine: its registry and its history
  keyCalls        \* two calls of a key generator: arguments and result

vars ==
  <<keyGenerator, limiterOptions, limiterCache, instanceCount, consumed, inv,
    calls, lastCall, returned, otherEngine, keyCalls>>

Invocations == 1..NumInv

NoField == Field(<<>>, <<>>, Args(Num(0), Num(0)))

\* an invocation that has not been made yet
Idle ==
  [pc |-> "idle", field |-> NoField, key |-> <<>>, limiter |-> NoLimiter,
   answer |-> NoError, stage |-> "none", raised |-> NoError,
   error |-> NoError, keyGeneratorCalls |-> 0, consumeCalls |-> 0,
   resolveCalls |-> 0, source |-> RootSource, resolverArgs |-> NoArguments,
   context |-> NoContext, passed |-> <<>>, value |-> Undefined]

Call(args, thrown, limiter) ==
  [args |-> args, thrown |-> thrown, limiter |-> limiter]
Returned(args, id) == [args |-> args, id |-> id]

\* the arguments of the fields a request has touched before the run starts
WarmArgs(k) == Args(Num(k), Num(3))

\* the registry after a request that resolved `warm` fields, one after the
\* other, whose @rateLimit arguments are WarmArgs(1) .. WarmArgs(warm)
WarmCache(warm) ==
  [k \in 1..warm |->
     Entry(CacheKey(WarmArgs(k)), Limiter(k, ConstructorOptions(WarmArgs(k))))]

\* a call of a key generator with its five arguments, and what it returned
KeyCall(generator, directiveArgs, source, args, context, info, result) ==
  [generator |-> generator, directiveArgs |-> directiveArgs,
   source |-> source, args |-> args, context |-> context, info |-> info,
   result |-> result]
NoKeyCall ==
  KeyCall("none", NoField.args, RootSource, NoArguments,
          KeyContext(JsUndefined, JsUndefined, <<>>), NoField,
          [thrown |-> NoError, key |-> <<>>])

\* a second createRateLimitDirective(config) call: a registry of its own
NewEngine == [cache |-> <<>>, returned |-> {}, acquired |-> FALSE]

\* the state of an engine configured with limiterOptions `options` whose
\* registry holds `warm` entries, but for the invocations in flight
InitEngine(options, warm) ==
  /\ keyGenerator \in KeyGenerators
  /\ limiterOptions = options
  /\ otherEngine = NewEngine
  /\ keyCalls = <<NoKeyCall, NoKeyCall>>
  /\ limiterCache = WarmCache(warm)
  /\ instanceCount = warm
  /\ returned = { Returned(WarmArgs(k), k) : k \in 1..warm }
  /\ consumed = [k \in Keys |-> 0]
  /\ calls = 0
  /\ lastCall = Call(NoField.args, NoError, NoLimiter)

\* that engine with no invocation in flight
InitWith(options, warm) ==
  /\ InitEngine(options, warm)
  /\ inv = [i \in Invocations |-> Idle]

InitWarm(warm) == InitWith(StoreOptions, warm)

\* a fresh engine
Init == InitWarm(0)

\* a rejected consume is tried again instead of ending the invocation
FailRetrying(invocation, stage, thrown) ==
  IF stage = "consume"
    THEN [invocation EXCEPT !.pc = "consume", !.consumeCalls = @ + 1]
    ELSE [invocation EXCEPT !.pc = "done", !.stage = stage,
                            !.raised = thrown, !.error = OuterCatch(thrown)]

\* the invocation ends by throwing `thrown` inside the outer try block
Fail(invocation, stage, thrown) ==
  [invocation EXCEPT !.pc = "done", !.stage = stage, !.raised = thrown,
                     !.error = OuterCatch(thrown)]

\* The field's resolver, as declared (or by default) in the schema, is
\* called with the argument list `passed`: it returns, returns a pending
\* promise, or throws.
CallResolve(invocation, source, resolverArgs, context, info) ==
  LET passed == ResolveArguments(source, resolverArgs, context, info)
      called == [invocation EXCEPT !.resolveCalls = @ + 1, !.passed = passed]
  IN  IF HasResolver(info)
        THEN { [called EXCEPT !.pc = "done", !.value = ResolverValue(info)],
               [called EXCEPT !.pc = "resolve"] }
             \cup { [called EXCEPT !.pc = "threw", !.raised = e] :
                       e \in ResolveErrors }
        ELSE { [called EXCEPT !.pc = "done",
                              !.value = defaultFieldResolver(source, info)] }

\* A wrapped resolver is called for field f with the source, the arguments
\* and the caller context c, and runs up to `await limiter.consume(key)`.
Invoke(i, f, c, source, resolverArgs) ==
  /\ inv[i].pc = "idle"
  /\ IF i = 1 THEN TRUE ELSE inv[i - 1].pc # "idle"
  /\ LET started == [inv[i] EXCEPT !.field = f, !.keyGeneratorCalls = 1,
                                   !.source = source, !.context = c,
                                   !.resolverArgs = resolverArgs]
         k == CallKeyGenerator(keyGenerator, f.args, source, resolverArgs,
                               c, f)
     IN  IF k.thrown # NoError
           THEN /\ inv' = [inv EXCEPT ![i] =
                             Fail(started, "keyGenerator", k.thrown)]
                /\ UNCHANGED <<limiterCache, instanceCount>>
           ELSE \E ctorThrows \in BOOLEAN :
                  LET g == getLimiter(limiterCache, f.args,
                                      instanceCount + 1, ctorThrows)
                      keyed == [started EXCEPT !.key = k.key]
                  IN  /\ limiterCache' = g.cache
                      /\ instanceCount' =
                           IF g.constructed THEN instanceCount + 1
                                            ELSE instanceCount
                      /\ inv' = [inv EXCEPT ![i] =
                           IF g.thrown = NoError
                             THEN [keyed EXCEPT !.pc = "consume",
                                                !.limiter = g.limiter,
                                                !.consumeCalls = 1]
                           ELSE IF g.thrown = ConstructorError
                             THEN Fail(keyed, "construct", g.thrown)
                           ELSE Fail(keyed, "validate", g.thrown)]
  /\ UNCHANGED <<keyGenerator, limiterOptions, otherEngine, keyCalls, consumed, calls,
                 lastCall, returned>>

\* The resolver of a field the transformer left alone is called by the
\* executor: no wrapper, no catch block.
InvokeOriginal(i, f, c, source, resolverArgs) ==
  /\ inv[i].pc = "idle"
  /\ IF i = 1 THEN TRUE ELSE inv[i - 1].pc # "idle"
  /\ LET started == [inv[i] EXCEPT !.field = f, !.source = source,
                                   !.context = c,
                                   !.resolverArgs = resolverArgs]
     IN  \E after \in CallResolve(started, source, resolverArgs, c, f) :
           inv' = [inv EXCEPT ![i] =
                     IF after.pc = "threw"
                       THEN [after EXCEPT !.pc = "done", !.stage = "resolve",
                                          !.error = after.raised]
                       ELSE after]
  /\ UNCHANGED <<keyGenerator, limiterOptions, otherEngine, keyCalls, limiterCache,
                 instanceCount, consumed, calls, lastCall, returned>>

\* The executor resolves field f of the transformed schema.
ResolveField(i, f, c, source, resolverArgs) ==
  /\ inv[i].pc = "idle"
  /\ c \in ContextsOf(keyGenerator)
  /\ IF IsWrapped(f)
       THEN Invoke(i, f, c, source, resolverArgs)
       ELSE InvokeOriginal(i, f, c, source, resolverArgs)

\* a store that answers the limiters of the registry only: the request of
\* a limiter whose entry was evicted is never handled
StoreConsumeCachedOnly(i, rejections) ==
  /\ inv[i].pc = "consume"
  /\ \E n \in 1..Len(limiterCache) : limiterCache[n].limiter = inv[i].limiter
  /\ \/ /\ StoreAdmits(consumed[inv[i].key], inv[i].limiter)
        /\ consumed' = [consumed EXCEPT ![inv[i].key] = @ + 1]
        /\ inv' = [inv EXCEPT ![i].pc = "settled", ![i].answer = NoError]
     \/ /\ \E rejection \in rejections :
             inv' = [inv EXCEPT ![i].pc = "settled", ![i].answer = rejection]
        /\ UNCHANGED consumed
  /\ UNCHANGED <<keyGenerator, limiterOptions, otherEngine, keyCalls,
                 limiterCache, instanceCount, calls, lastCall, returned>>

\* The store handles the consume request of invocation i; `rejections` are
\* the values it may reject the request with.
StoreConsumeWith(i, rejections) ==
  /\ inv[i].pc = "consume"
  /\ \/ /\ StoreAdmits(consumed[inv[i].key], inv[i].limiter)
        /\ consumed' = [consumed EXCEPT ![inv[i].key] = @ + 1]
        /\ inv' = [inv EXCEPT ![i].pc = "settled", ![i].answer = NoError]
     \/ /\ \E rejection \in rejections :
             inv' = [inv EXCEPT ![i].pc = "settled", ![i].answer = rejection]
        /\ UNCHANGED consumed
  /\ UNCHANGED <<keyGenerator, limiterOptions, otherEngine, keyCalls, limiterCache,
                 instanceCount, calls, lastCall, returned>>

StoreConsume(i) == StoreConsumeWith(i, QuotaRejections \cup StoreFailures)

\* The awaited consume settles and the wrapped resolver runs on: into the
\* inner catch on a rejection, into resolve(...) otherwise.
Resume(i) ==
  /\ inv[i].pc = "settled"
  /\ IF ConsumeSucceeded(inv[i].answer)
       THEN \E after \in CallResolve(inv[i], inv[i].source,
                                      inv[i].resolverArgs, inv[i].context,
                                      inv[i].field) :
              inv' = [inv EXCEPT ![i] =
                        IF after.pc = "threw"
                          THEN Fail(after, "resolve", after.raised)
                          ELSE after]
       ELSE inv' = [inv EXCEPT ![i] =
                      Fail(inv[i], "consume", InnerCatch(inv[i].answer))]
  /\ UNCHANGED <<keyGenerator, limiterOptions, otherEngine, keyCalls, limiterCache,
                 instanceCount, consumed, calls, lastCall, returned>>

\* The promise an asynchronous resolver returned settles; the wrapped
\* resolver returned it without awaiting, so no catch block sees it.
ResolveSettle(i) ==
  /\ inv[i].pc = "resolve"
  /\ \/ inv' = [inv EXCEPT ![i].pc = "done",
                             ![i].value = ResolverValue(inv[i].field)]
     \/ \E e \in ResolveErrors :
          inv' = [inv EXCEPT ![i].pc = "done", ![i].stage = "resolve",
                             ![i].raised = e, ![i].error = e]
  /\ UNCHANGED <<keyGenerator, limiterOptions, otherEngine, keyCalls, limiterCache,
                 instanceCount, consumed, calls, lastCall, returned>>

Next ==
  \/ \E i \in Invocations, f \in Fields \cup UnannotatedFields,
        c \in Contexts :
       ResolveField(i, f, c, RootSource, NoArguments)
  \/ \E i \in Invocations : StoreConsume(i)
  \/ \E i \in Invocations : Resume(i)
  \/ \E i \in Invocations : ResolveSettle(i)

Spec == Init /\ [][Next]_vars

\* ------------------------------------------------ runs of the resolvers
\* what the executor hands to a resolver: the root value, null, a parent
\* object; no field arguments or one
ResolveInputs ==
  { <<RootSource, NoArguments>>,
    <<Source("null", {}), Source("object", {<<<<"id">>, Value("7")>>})>>,
    <<Source("object", {<<<<"name">>, Value("Ada")>>}), NoArguments>> }

\* a field with a resolver of its own and one without
ResolveFields ==
  { Field(<<"Query">>, <<"a">>, Args(Num(60), Num(1))) } \cup DefaultResolvedFields

NextResolve ==
  \/ \E i \in Invocations, f \in ResolveFields, c \in Contexts,
        r \in ResolveInputs :
       ResolveField(i, f, c, r[1], r[2])
  \/ \E i \in Invocations :
       StoreConsumeWith(i, { RateLimiterRes(<<"Rate limit exceeded">>, 5000) })
  \/ \E i \in Invocations : Resume(i)
  \/ \E i \in Invocations : ResolveSettle(i)

InitResolve == keyGenerator = "default" /\ Init

SpecResolve == InitResolve /\ [][NextResolve]_vars

\* ------------------------------------------------- runs of the retry hint
\* largest msBeforeNext the store rejects a consume with
MaxMs == 5001

RetryField == Field(<<"Query">>, <<"a">>, Args(Num(60), Num(1)))

\* the messages of the rejections: the limiter library's own and one that
\* names the store
RetryMessages ==
  { <<"Rate limit exceeded">>, <<"Redis", " rate limit exceeded">> }

\* one invocation of one field; the store rejects with any msBeforeNext
NextRetry ==
  \/ \E c \in Contexts :
       ResolveField(1, RetryField, c, RootSource, NoArguments)
  \/ StoreConsumeWith(1, { RateLimiterRes(message, ms) :
                             message \in RetryMessages, ms \in 0..MaxMs })
  \/ Resume(1)
  \/ ResolveSettle(1)

InitRetry == keyGenerator = "default" /\ Init

SpecRetry == InitRetry /\ [][NextRetry]_vars

\* ------------------------------------------------ runs on a full registry
\* two fields with one QuotaSpec that has no entry, and the field whose
\* entry is the oldest of the registry
FullFields ==
  { f \in Fields : f.args \in { Args(Num(60), Num(1)), WarmArgs(1) } }

\* the first invocation of a request on the field with WarmArgs(1), as it
\* waits for its consume call: it acquired limiter 1 from the empty registry
Suspended ==
  LET f == CHOOSE g \in Fields : g.args = WarmArgs(1)
      c == CHOOSE d \in ContextsOf("default") : TRUE
      k == CallKeyGenerator("default", f.args, RootSource, NoArguments, c, f)
      g == getLimiter(<<>>, f.args, 1, FALSE)
  IN  [Idle EXCEPT !.pc = "consume", !.field = f, !.context = c,
                   !.key = k.key, !.limiter = g.limiter,
                   !.keyGeneratorCalls = 1, !.consumeCalls = 1]

\* a quota rejection and a store failure
FullRejections ==
  { RateLimiterRes(<<"Rate limit exceeded">>, 5000),
    PlainError(<<"Redis", " connection failed">>) }

NextFull ==
  \/ \E i \in Invocations, f \in FullFields, c \in Contexts :
       ResolveField(i, f, c, RootSource, NoArguments)
  \/ \E i \in Invocations : StoreConsumeWith(i, FullRejections)
  \/ \E i \in Invocations : Resume(i)
  \/ \E i \in Invocations : ResolveSettle(i)

\* a request has filled the registry; either all its invocations are over,
\* or the first one, slow at the store, still waits for its consume call
InitFull ==
  /\ keyGenerator = "default"
  /\ InitEngine(StoreOptions, MAX_LIMITER_CACHE_SIZE)
  /\ \/ inv = [i \in Invocations |-> Idle]
     \/ inv = [i \in Invocations |-> IF i = 1 THEN Suspended ELSE Idle]

SpecFull == InitFull /\ [][NextFull]_vars

\* ------------------------------------------- runs of the key generators
\* operations: parent type names and field names over the characters x, z
KeyInfos ==
  { Field(parentType, fieldName, NoField.args) :
      parentType \in { <<"x">>, <<"x", "x">> },
      fieldName \in { <<"z">>, <<"x", "z">> } }

\* directive arguments, source and resolver arguments of a call
KeyEnvs ==
  { <<Args(Num(60), Num(10)), Source("null", {}), NoArguments>>,
    <<Args(Num(1), Num(3)), Source("null", {}), NoArguments>>,
    <<Args(Num(60), Num(10)),
      Source("object", {<<<<"name">>, Value("Ada")>>}), NoArguments>>,
    <<Args(Num(60), Num(10)), Source("null", {}),
      Source("object", {<<<<"id">>, Value("7")>>})>> }

\* caller contexts: a present, missing, null or empty user id and address,
\* identifiers with null, undefined and empty values and numeric names
KeyContexts ==
  { KeyContext(JsString(<<"x">>), JsString(<<"1", ".", "2">>),
               <<<<<<"a">>, JsNull>>, <<<<"b">>, JsString(<<"2">>)>>,
                 <<<<"c">>, JsString(<<"3">>)>>>>),
    KeyContext(JsString(<<"z">>), JsString(<<"1", ".", "3">>),
               <<<<<<"a">>, JsString(<<"1">>)>>, <<<<"b">>, JsString(<<"2">>)>>,
                 <<<<"c">>, JsString(<<"3">>)>>>>),
    KeyContext(JsNull, JsNull,
               <<<<<<"a">>, JsNull>>, <<<<"b">>, JsUndefined>>>>),
    KeyContext(JsUndefined, JsUndefined, <<>>),
    KeyContext(JsString(<<>>), JsString(<<>>),
               <<<<<<"a">>, JsString(<<>>)>>>>),
    KeyContext(JsString(<<"x", ":", "x">>), JsString(<<":", ":", "1">>),
               <<<<<<"b">>, JsString(<<"2">>)>>, <<<<"a">>, JsString(<<"1">>)>>>>),
    KeyContext(JsString(<<"anonymous">>), JsString(<<"unknown">>),
               <<<<<<"b">>, JsString(<<"x">>)>>, <<<<"1">>, JsString(<<"z">>)>>>>),
    KeyContext(JsString(<<"x", ".", "z">>), JsString(<<"1">>),
               <<<<<<"2">>, JsString(<<"x">>)>>, <<<<"1">>, JsString(<<"z">>)>>>>) }

KeyGeneratorNames == {"default", "user", "ip", "composite"}

\* the exported generator, or the one a factory returned, applied
ApplyKeyGenerator(generator, directiveArgs, source, args, context, info) ==
  CASE generator = "default" ->
         defaultKeyGenerator(directiveArgs, source, args, context, info)
    [] generator = "user" ->
         createUserKeyGenerator(directiveArgs, source, args, context, info)
    [] generator = "ip" ->
         createIPKeyGenerator(directiveArgs, source, args, context, info)
    [] generator = "composite" ->
         createCompositeKeyGenerator(directiveArgs, source, args, context,
                                     info)

\* A key generator is called; the second call of a run is a call of the
\* same generator.
GenerateKey(slot, generator, env, context, info) ==
  /\ keyCalls[slot] = NoKeyCall
  /\ IF slot = 1
       THEN keyCalls[2] = NoKeyCall
       ELSE keyCalls[1].generator = generator
  /\ keyCalls' =
       [keyCalls EXCEPT ![slot] =
          KeyCall(generator, env[1], env[2], env[3], context, info,
                  ApplyKeyGenerator(generator, env[1], env[2], env[3],
                                    context, info))]
  /\ UNCHANGED <<keyGenerator, limiterOptions, otherEngine, limiterCache,
                 instanceCount, consumed, inv, calls, lastCall, returned>>

NextKeys ==
  \E slot \in {1, 2}, generator \in KeyGeneratorNames, env \in KeyEnvs,
     context \in KeyContexts, info \in KeyInfos :
    GenerateKey(slot, generator, env, context, info)

InitKeys == keyGenerator = "default" /\ Init

SpecKeys == InitKeys /\ [][NextKeys]_vars

\* ------------------------------------------------- runs of the registry
\* number of getLimiter calls of one run of the registry
MaxCalls == 2

\* getLimiter(args) is called; it is synchronous, so calls never overlap.
GetLimiterCall(args, ctorThrows) ==
  /\ calls < MaxCalls
  /\ LET g == getLimiter(limiterCache, args, instanceCount + 1, ctorThrows)
     IN  /\ limiterCache' = g.cache
         /\ instanceCount' =
              IF g.constructed THEN instanceCount + 1 ELSE instanceCount
         /\ lastCall' = Call(args, g.thrown, g.limiter)
         /\ returned' =
              IF g.thrown = NoError
                THEN returned \cup {Returned(args, g.limiter.id)}
                ELSE returned
  /\ calls' = calls + 1
  /\ UNCHANGED <<keyGenerator, limiterOptions, otherEngine, keyCalls, consumed, inv>>

NextRegistry ==
  \E args \in ArgsValues, ctorThrows \in BOOLEAN :
    GetLimiterCall(args, ctorThrows)

\* a fresh engine, or one whose registry is full or one entry short of it
InitRegistry ==
  /\ keyGenerator = "default"
  /\ \/ InitWarm(0)
     \/ InitWarm(MAX_LIMITER_CACHE_SIZE - 1)
     \/ InitWarm(MAX_LIMITER_CACHE_SIZE)

SpecRegistry == InitRegistry /\ [][NextRegistry]_vars

\* ------------------------------------- runs with other limiter options
\* the arguments getLimiter is called with in these runs
FewArgs ==
  { Args(Num(1), Num(3)), Args(Num(12), Num(3)), Args(Num(1), Num(23)),
    Args(Num(12), Num(23)), Args(Num(0), Num(3)), Args(Num(1), Frac(1, 5)) }

NextOptions ==
  \E args \in FewArgs, ctorThrows \in BOOLEAN :
    GetLimiterCall(args, ctorThrows)

\* a fresh engine with any of the configurations
InitOptions ==
  /\ keyGenerator = "default"
  /\ \E options \in LimiterOptionsValues : InitWith(options, 0)

SpecOptions == InitOptions /\ [][NextOptions]_vars

\* ------------------------------------------------- runs of two engines
\* the second engine shares the Map of the first: a module-level registry
RegistryOfShared(engine) == 1

\* the Map the getLimiter of an engine closes over: its own
RegistryOf(engine) == engine

\* getLimiter(args) is called on one of two engines built from the same
\* configuration and limiter class.
AcquireOn(engine, args, ctorThrows) ==
  /\ calls < MaxCalls
  /\ LET first == RegistryOf(engine) = 1
         g == getLimiter(IF first THEN limiterCache ELSE otherEngine.cache,
                         args, instanceCount + 1, ctorThrows)
         history == IF g.thrown = NoError
                      THEN {Returned(args, g.limiter.id)}
                      ELSE {}
     IN  /\ limiterCache' = IF first THEN g.cache ELSE limiterCache
         /\ otherEngine' =
              [cache |-> IF first THEN otherEngine.cache ELSE g.cache,
               returned |-> IF engine = 1
                              THEN otherEngine.returned
                              ELSE otherEngine.returned \cup history,
               acquired |-> engine # 1]
         /\ returned' = IF engine = 1 THEN returned \cup history ELSE returned
         /\ instanceCount' =
              IF g.constructed THEN instanceCount + 1 ELSE instanceCount
         /\ lastCall' = Call(args, g.thrown, g.limiter)
  /\ calls' = calls + 1
  /\ UNCHANGED <<keyGenerator, limiterOptions, keyCalls, consumed, inv>>

NextEngines ==
  \E engine \in {1, 2}, args \in FewArgs, ctorThrows \in BOOLEAN :
    AcquireOn(engine, args, ctorThrows)

InitEngines == keyGenerator = "default" /\ Init

SpecEngines == InitEngines /\ [][NextEngines]_vars

\* ================================================================ claims
\* a QuotaSpec as section 3 of the specification defines it
ValidQuotaSpec(args) ==
  /\ args.limit.f = 0 /\ 1 <= args.limit.i /\ args.limit.i <= 1000000
  /\ args.duration.f = 0 /\ 1 <= args.duration.i
  /\ args.duration.i <= 31536000

\* the error is one of the validator's own
IsValidationError(error) ==
  /\ error.cls = "Error"
  /\ error.code = ""
  /\ Len(error.message) > 0
  /\ error.message[1] \in
       {"Invalid rate limit: ", "Invalid duration: ", "Invalid limit: "}

\* the consume call of invocation i was rejected
Rejected(i) == inv[i].pc \in {"settled", "done"} /\ inv[i].answer # NoError

\* how often the protected resolver was called for a QuotaSpec and a key
ResolveCount(args, key) ==
  Cardinality({ c \in Invocations \X (1..NumInv) :
                  /\ inv[c[1]].field.args = args
                  /\ inv[c[1]].key = key
                  /\ c[2] <= inv[c[1]].resolveCalls })

\* C1: with a store that admits at most `limit` consume calls per key, the
\* protected resolver is called at most `limit` times per QuotaSpec and key,
\* whatever the interleaving, and an invocation whose consume was rejected
\* ends with an error without having called it.
C1_QuotaNeverExceeded ==
  /\ \A f \in Fields, k \in Keys :
       ValidQuotaSpec(f.args) => ResolveCount(f.args, k) <= f.args.limit.i
  /\ \A i \in Invocations :
       Rejected(i) /\ inv[i].pc = "done" =>
         inv[i].resolveCalls = 0 /\ inv[i].error # NoError

\* two invocations on one key of a quota of 1: one reached the resolver,
\* the other was turned away by the store and ended RATE_LIMITED
C1_Witness ==
  \E i, j \in Invocations :
    /\ i # j
    /\ inv[i].field.args = inv[j].field.args
    /\ inv[i].field.args.limit.i = 1
    /\ inv[i].key = inv[j].key
    /\ inv[i].resolveCalls = 1
    /\ consumed[inv[i].key] = 1
    /\ inv[j].pc = "done" /\ inv[j].answer.hasMs
    /\ inv[j].error.code = "RATE_LIMITED" /\ inv[j].resolveCalls = 0

\* C2: the protected resolver of an annotated field is called only in the
\* step that resumes an invocation whose consume call was made and
\* fulfilled, and an invocation whose consume was rejected has never called
\* it.
C2_CheckThenProceed ==
  [][\A i \in Invocations :
       inv'[i].field \notin UnannotatedFields =>
       /\ inv'[i].resolveCalls # inv[i].resolveCalls =>
            /\ inv[i].pc = "settled"
            /\ inv[i].answer = NoError
            /\ inv[i].consumeCalls = 1
            /\ inv[i].resolveCalls = 0
       /\ inv'[i].pc \in {"idle", "consume", "settled"} =>
            inv'[i].resolveCalls = 0
       /\ inv'[i].answer # NoError => inv'[i].resolveCalls = 0]_vars

\* one invocation is inside its resolver after a fulfilled consume while
\* another has ended on a rejected consume
C2_Witness ==
  \E i, j \in Invocations :
    /\ inv[i].pc = "resolve" /\ inv[i].resolveCalls = 1
    /\ inv[i].answer = NoError /\ inv[i].consumeCalls = 1
    /\ inv[j].pc = "done" /\ inv[j].answer # NoError
    /\ inv[j].resolveCalls = 0

\* C3: an invocation whose consume was rejected with a numeric msBeforeNext
\* ends with GraphQLError "Rate limit exceeded", code RATE_LIMITED, status
\* 429 and retryAfter the least n with n * 1000 >= msBeforeNext, and has not
\* called the protected resolver.
C3_QuotaExceededOutcome ==
  \A i \in Invocations :
    inv[i].pc = "done" /\ inv[i].answer # NoError /\ inv[i].answer.hasMs =>
      /\ inv[i].error.cls = "GraphQLError"
      /\ inv[i].error.message = <<"Rate limit exceeded">>
      /\ inv[i].error.code = "RATE_LIMITED"
      /\ inv[i].error.status = 429
      /\ inv[i].error.retryAfter * 1000 >= inv[i].answer.msBeforeNext
      /\ (inv[i].error.retryAfter - 1) * 1000 < inv[i].answer.msBeforeNext
      /\ inv[i].resolveCalls = 0

\* both rejections the store can answer with were classified: the one with
\* msBeforeNext = 5000 (retry after 5 s) and the one with msBeforeNext = 0
C3_Witness ==
  \E i, j \in Invocations :
    /\ inv[i].pc = "done" /\ inv[i].answer.hasMs
    /\ inv[i].answer.msBeforeNext = 5000
    /\ inv[i].error.code = "RATE_LIMITED" /\ inv[i].error.retryAfter = 5
    /\ inv[j].pc = "done" /\ inv[j].answer.hasMs
    /\ inv[j].answer.msBeforeNext = 0
    /\ inv[j].error.code = "RATE_LIMITED" /\ inv[j].error.retryAfter = 0

\* C4: an invocation whose consume was rejected with a value without numeric
\* msBeforeNext ends with code RATE_LIMIT_SERVICE_ERROR, status 503, and has
\* not called the protected resolver.
C4_ServiceUnavailableOutcome ==
  \A i \in Invocations :
    inv[i].pc = "done" /\ inv[i].answer # NoError /\ ~inv[i].answer.hasMs =>
      /\ inv[i].error.code = "RATE_LIMIT_SERVICE_ERROR"
      /\ inv[i].error.status = 503
      /\ inv[i].resolveCalls = 0

\* C5 as claimed: a started invocation has made one consume call when its
\* QuotaSpec is valid and its key was derived, and none otherwise.
C5_OneConsumePerValidKeyedCall ==
  \A i \in Invocations :
    inv[i].pc # "idle" =>
      inv[i].consumeCalls =
        IF ValidQuotaSpec(inv[i].field.args) /\ inv[i].key # <<>>
          THEN 1 ELSE 0

\* C5 as amended: a started invocation has made one consume call when its
\* QuotaSpec is valid, its key was derived and getLimiter returned a
\* limiter, and none when any of the three failed.
C5_OneConsumePerAcquiredLimiter ==
  \A i \in Invocations :
    inv[i].pc # "idle" =>
      inv[i].consumeCalls =
        IF /\ ValidQuotaSpec(inv[i].field.args)
           /\ inv[i].key # <<>>
           /\ inv[i].limiter # NoLimiter
          THEN 1 ELSE 0

\* one invocation ended without a consume call because the limiter's
\* constructor threw, another ended after its one consume call
C5_Witness ==
  \E i, j \in Invocations :
    /\ inv[i].pc = "done" /\ inv[i].raised = ConstructorError
    /\ ValidQuotaSpec(inv[i].field.args) /\ inv[i].key # <<>>
    /\ inv[i].consumeCalls = 0
    /\ inv[j].pc = "done" /\ inv[j].consumeCalls = 1

\* C7: an invocation on an invalid QuotaSpec ends with the validator's own
\* error, not reclassified, without a consume call or a resolver call.
C7_InvalidSpecFailsWithValidatorError ==
  \A i \in Invocations :
    inv[i].pc # "idle" /\ ~ValidQuotaSpec(inv[i].field.args) =>
      /\ inv[i].pc = "done"
      /\ IsValidationError(inv[i].error)
      /\ inv[i].consumeCalls = 0
      /\ inv[i].resolveCalls = 0

\* the registry holds an entry for the QuotaSpec
InRegistry(cache, args) ==
  \E n \in 1..Len(cache) : cache[n].key = CacheKey(args)

\* the limiter of that entry
RegistryLimiter(cache, args) ==
  cache[CHOOSE n \in 1..Len(cache) : cache[n].key = CacheKey(args)].limiter

\* C6: a getLimiter call fails in validation exactly when its arguments are
\* not a valid QuotaSpec (limit an integer in 1..1000000, duration an
\* integer in 1..31536000), and a call that fails there changes nothing.
C6_ValidatorAcceptsExactlyValidSpecs ==
  [][calls' = calls + 1 =>
       /\ ValidQuotaSpec(lastCall'.args) <=>
            ~IsValidationError(lastCall'.thrown)
       /\ ~ValidQuotaSpec(lastCall'.args) =>
            /\ limiterCache' = limiterCache
            /\ instanceCount' = instanceCount
            /\ returned' = returned]_vars

\* a call with the greatest valid limit and duration was accepted and the
\* call after it, with limit 1000001, was refused by the validator
C6_Witness ==
  /\ calls = 2
  /\ Returned(Args(Num(31536000), Num(1000000)), instanceCount) \in returned
  /\ lastCall.args.limit = Num(1000001)
  /\ ValidQuotaSpec(Args(lastCall.args.duration, Num(1)))
  /\ IsValidationError(lastCall.thrown)

\* C8 as claimed: no two getLimiter calls with the same arguments have
\* returned different limiters (as many distinct arguments as pairs).
C8_SameSpecSameLimiter ==
  Cardinality({ r.args : r \in returned }) = Cardinality(returned)

\* C8 as amended: a getLimiter call whose QuotaSpec has an entry in the
\* registry returns the limiter of that entry, which is the one the latest
\* earlier call with these arguments returned, and constructs nothing.
C8_SameSpecSameLimiterWhileCached ==
  [][calls' = calls + 1 /\ InRegistry(limiterCache, lastCall'.args) =>
       /\ lastCall'.thrown = NoError
       /\ lastCall'.limiter = RegistryLimiter(limiterCache, lastCall'.args)
       /\ Returned(lastCall'.args, lastCall'.limiter.id) \in returned
       /\ \A r \in returned :
            r.args = lastCall'.args => r.id <= lastCall'.limiter.id
       /\ instanceCount' = instanceCount]_vars

\* after a limiter was constructed at full capacity, the last call got a
\* limiter that existed before: a hit on an entry still in the registry
C8_Witness ==
  /\ calls = 2
  /\ instanceCount = MAX_LIMITER_CACHE_SIZE + 1
  /\ lastCall.thrown = NoError
  /\ lastCall.limiter.id < instanceCount
  /\ InRegistry(limiterCache, lastCall.args)

\* C9: no limiter was returned for two different QuotaSpecs (as many
\* distinct limiters as pairs of arguments and limiter).
C9_DifferentSpecsDifferentLimiters ==
  Cardinality({ r.id : r \in returned }) = Cardinality(returned)

\* limiters were returned for 1:23 and for 12:3, whose digits agree
C9_Witness ==
  \E r, q \in returned :
    /\ r.args = Args(Num(1), Num(23))
    /\ q.args = Args(Num(12), Num(3))
    /\ r.id # q.id
    /\ calls = 2

\* C10: the registry never holds more than 100 entries.
C10_RegistryWithinCapacity == Len(limiterCache) <= 100

\* the registry is full after two limiters were constructed at full
\* capacity, each in place of an evicted entry
C10_Witness ==
  /\ Len(limiterCache) = 100
  /\ instanceCount = 102
  /\ calls = 2

\* the entries of `cache` that `old` already held, in the order of `cache`
Kept(cache, old) ==
  SelectSeq(cache, LAMBDA e : \E n \in 1..Len(old) : old[n] = e)

\* C11: a getLimiter call for a valid QuotaSpec without an entry, made when
\* the registry holds 100 entries, removes the oldest entry and no other;
\* every other call removes no entry.
C11_EvictsExactlyTheOldest ==
  [][calls' = calls + 1 =>
       IF /\ ValidQuotaSpec(lastCall'.args)
          /\ ~InRegistry(limiterCache, lastCall'.args)
          /\ Len(limiterCache) >= 100
         THEN Kept(limiterCache', limiterCache) = Tail(limiterCache)
         ELSE \A n \in 1..Len(limiterCache) :
                \E m \in 1..Len(limiterCache') :
                  limiterCache'[m] = limiterCache[n]]_vars

\* the full registry lost its oldest entry (limiter 1) to limiter 101
C11_Witness ==
  /\ calls = 1
  /\ Len(limiterCache) = 100
  /\ limiterCache[1].limiter.id = 2
  /\ limiterCache[100].limiter.id = 101
  /\ lastCall.limiter.id = 101

\* C12: after a getLimiter call that returned a limiter, the entry of that
\* limiter is the last (most recently used) of the registry and the entries
\* before it are earlier entries in their earlier order.
C12_AcquiredEntryIsMostRecent ==
  [][calls' = calls + 1 /\ lastCall'.thrown = NoError =>
       LET n == Len(limiterCache')
           front == SubSeq(limiterCache', 1, n - 1)
       IN  /\ n > 0
           /\ limiterCache'[n] =
                Entry(CacheKey(lastCall'.args), lastCall'.limiter)
           /\ \A m \in 1..(n - 1) :
                limiterCache'[m].key # CacheKey(lastCall'.args)
           /\ front = Kept(limiterCache, front)]_vars

\* a hit on the oldest entry of the full registry moved it to the end
C12_Witness ==
  /\ calls = 1
  /\ instanceCount = 100
  /\ lastCall.thrown = NoError /\ lastCall.limiter.id = 1
  /\ Len(limiterCache) = 100
  /\ limiterCache[100].limiter.id = 1
  /\ limiterCache[1].limiter.id = 2

\* C13: a failure of the protected resolver, raised after consume succeeded,
\* reaches the caller as the value the resolver raised: it is never turned
\* into RATE_LIMITED or RATE_LIMIT_SERVICE_ERROR.
C13_ResolverFailurePropagatesUnchanged ==
  \A i \in Invocations :
    inv[i].stage = "resolve" /\ inv[i].field \notin UnannotatedFields =>
      /\ inv[i].answer = NoError /\ inv[i].consumeCalls = 1
      /\ inv[i].error = inv[i].raised

\* C14: a failure of the key generator reaches the caller as the value the
\* generator raised, and neither consume nor the resolver is called.
C14_KeyGeneratorFailurePropagatesUnchanged ==
  \A i \in Invocations :
    inv[i].stage = "keyGenerator" =>
      /\ inv[i].error = inv[i].raised
      /\ inv[i].consumeCalls = 0
      /\ inv[i].resolveCalls = 0

\* C15: the resolver of a field without @rateLimit runs unwrapped: its
\* invocation never calls the key generator or consume and acquires no
\* limiter, and its steps leave the registry, the instance count and the
\* store as they were, while annotated fields of the same schema are wrapped.
C15_UnannotatedFieldLeftUnwrapped ==
  [][\A i \in Invocations :
       inv'[i].field \in UnannotatedFields =>
         /\ inv'[i].keyGeneratorCalls = 0
         /\ inv'[i].consumeCalls = 0
         /\ inv'[i].key = <<>>
         /\ inv'[i].limiter.id = 0
         /\ inv'[i] # inv[i] =>
              /\ limiterCache' = limiterCache
              /\ instanceCount' = instanceCount
              /\ consumed' = consumed]_vars

\* the unannotated field has resolved next to a wrapped, annotated field
C15_Witness ==
  \E i, j \in Invocations :
    /\ inv[i].field \in UnannotatedFields
    /\ inv[i].pc = "done" /\ inv[i].resolveCalls = 1
    /\ inv[i].value = Value(inv[i].field.fieldName)
    /\ inv[j].field \in Fields /\ inv[j].consumeCalls = 1
    /\ Len(limiterCache) = 1

\* the key the configured generator returns for an invocation
GeneratedKey(i) ==
  IF keyGenerator = "default"
    THEN inv[i].field.parentType \o <<".">> \o inv[i].field.fieldName
    ELSE <<"user:", inv[i].context.userId>>

\* C16: the key of an invocation's consume call is the string the configured
\* key generator (the built-in one by default) returns for that invocation,
\* and the store counts a consume on the key of the invocation it answers,
\* whatever other invocations wait at their consume.
C16_ConsumeKeyIsGeneratedKey ==
  [][/\ \A i \in Invocations :
          inv'[i].consumeCalls = 1 => inv'[i].key = GeneratedKey(i)'
     /\ \A k \in Keys :
          consumed'[k] # consumed[k] =>
            \E i \in Invocations :
              /\ inv[i].pc = "consume" /\ inv'[i].pc = "settled"
              /\ k = GeneratedKey(i)]_vars

\* two invocations with different keys were waiting at consume; the store
\* has answered the second
C16_Witness ==
  /\ inv[1].pc = "consume" /\ inv[2].pc = "settled"
  /\ inv[2].answer = NoError
  /\ inv[1].key # inv[2].key
  /\ consumed[inv[2].key] = 1 /\ consumed[inv[1].key] = 0

\* what the resolver of the field returns for the source
ResolveResult(f, source) ==
  IF f \in DefaultResolvedFields
    THEN IF source.kind = "object"
              /\ \E p \in source.props : p[1] = f.fieldName
           THEN (CHOOSE p \in source.props : p[1] = f.fieldName)[2]
           ELSE <<>>
    ELSE <<f.fieldName>>

\* C17: an invocation whose consume was fulfilled has called the resolver of
\* its field (the default field resolver when the field declares none) once,
\* with the source, arguments, context and info it was called with itself,
\* and when that call succeeds it returns the resolver's result.
C17_ResolverCalledOnceWithOriginalArguments ==
  \A i \in Invocations :
    /\ inv[i].field \notin UnannotatedFields
    /\ inv[i].consumeCalls = 1 /\ inv[i].answer = NoError
    /\ inv[i].pc \in {"resolve", "done"}
    => /\ inv[i].resolveCalls = 1
       /\ inv[i].passed = <<inv[i].source, inv[i].resolverArgs,
                            inv[i].context, inv[i].field>>
       /\ inv[i].pc = "done" /\ inv[i].error = NoError =>
            inv[i].value = ResolveResult(inv[i].field, inv[i].source)

\* the default field resolver has returned the property of a parent object
\* while an invocation of a field with its own resolver has returned too
C17_Witness ==
  \E i, j \in Invocations :
    /\ inv[i].field \in DefaultResolvedFields
    /\ inv[i].source.kind = "object"
    /\ inv[i].pc = "done" /\ inv[i].resolveCalls = 1
    /\ inv[i].value = <<"Ada">>
    /\ inv[j].field \notin DefaultResolvedFields
    /\ inv[j].pc = "done" /\ inv[j].resolveCalls = 1
    /\ inv[j].error = NoError /\ inv[j].value = <<<<"a">>>>
    /\ inv[j].resolverArgs.props # {}

\* C18: the retryAfter of a quota rejection is the least whole number of
\* seconds n with n * 1000 >= msBeforeNext, for every msBeforeNext from 0 on
\* (5000 gives 5, 4001 gives 5, 1 gives 1, 0 gives 0).
C18_RetryAfterIsCeiling ==
  \A i \in Invocations :
    inv[i].pc = "done" /\ inv[i].answer.hasMs =>
      LET n == inv[i].error.retryAfter
          ms == inv[i].answer.msBeforeNext
      IN  /\ n \in Nat
          /\ n * 1000 >= ms
          /\ n > 0 => (n - 1) * 1000 < ms

\* a rejection 4001 ms before the next window was answered with 5 seconds
C18_Witness ==
  /\ inv[1].pc = "done"
  /\ inv[1].answer.hasMs /\ inv[1].answer.msBeforeNext = 4001
  /\ inv[1].error.code = "RATE_LIMITED"
  /\ inv[1].error.retryAfter = 5

\* C19: every limiter is constructed with duration and points equal to the
\* duration and limit of the directive, together with every other field of
\* limiterOptions, so the limiter cached under "d:l" has duration d and
\* points l.
C19_LimiterBoundToDirectiveArgs ==
  /\ calls > 0 /\ lastCall.thrown = NoError =>
       /\ lastCall.limiter.options.duration = lastCall.args.duration
       /\ lastCall.limiter.options.points = lastCall.args.limit
       /\ \A name \in DOMAIN limiterOptions \ {"duration", "points"} :
            lastCall.limiter.options[name] = limiterOptions[name]
  /\ \A n \in 1..Len(limiterCache) :
       limiterCache[n].key =
         NumberToString(limiterCache[n].limiter.options.duration)
           \o <<":">>
           \o NumberToString(limiterCache[n].limiter.options.points)

\* C20: a getLimiter call on one engine leaves the registry and the history
\* of the other engine as they were, and no limiter is returned by both
\* engines.
C20_EnginesOwnTheirRegistries ==
  [][calls' = calls + 1 =>
       /\ otherEngine'.acquired =>
            limiterCache' = limiterCache /\ returned' = returned
       /\ ~otherEngine'.acquired =>
            /\ otherEngine'.cache = otherEngine.cache
            /\ otherEngine'.returned = otherEngine.returned
       /\ \A r \in returned', o \in otherEngine'.returned : r.id # o.id]_vars

\* both engines hold an entry for the same arguments, with two limiters
C20_Witness ==
  /\ Len(limiterCache) = 1 /\ Len(otherEngine.cache) = 1
  /\ limiterCache[1].key = otherEngine.cache[1].key
  /\ limiterCache[1].limiter.id # otherEngine.cache[1].limiter.id
  /\ \E r \in returned, o \in otherEngine.returned : r.args = o.args

\* C21: once the consume of an invocation is rejected, the invocation makes
\* no further consume call and never calls its resolver: its next step ends
\* it with the failure that the rejection stands for.
C21_RejectedConsumeIsTerminal ==
  [][\A i \in Invocations :
       inv[i].pc \in {"settled", "done"} /\ inv[i].answer # NoError =>
         /\ inv'[i].pc \in {"settled", "done"}
         /\ inv'[i].answer = inv[i].answer
         /\ inv'[i].consumeCalls = 1
         /\ inv'[i].resolveCalls = 0
         /\ inv'[i].pc = "done" =>
              /\ inv'[i].stage = "consume"
              /\ inv'[i].error # NoError
              /\ inv[i].answer.hasMs => inv'[i].error.code = "RATE_LIMITED"
              /\ ~inv[i].answer.hasMs => inv'[i].raised = inv[i].answer]_vars

\* an invocation has ended on a store failure after its single consume call
C21_Witness ==
  \E i \in Invocations :
    /\ inv[i].pc = "done" /\ inv[i].stage = "consume"
    /\ inv[i].answer \in StoreFailures
    /\ inv[i].raised = inv[i].answer
    /\ inv[i].consumeCalls = 1 /\ inv[i].resolveCalls = 0
    /\ inv[i].error # NoError

\* C22: every invocation that has ended has one outcome, a result or a
\* failure, and every failure is a classified one: the validator's error for
\* an invalid QuotaSpec, RATE_LIMITED for a quota rejection,
\* RATE_LIMIT_SERVICE_ERROR for any other rejection of consume, and the
\* raised value itself for a failure of the key generator or the resolver.
C22_EveryFailureIsClassified ==
  \A i \in Invocations :
    inv[i].pc = "done" =>
      /\ inv[i].error = NoError <=> inv[i].stage = "none"
      /\ inv[i].stage = "none" => inv[i].resolveCalls = 1
      /\ inv[i].stage = "validate" => IsValidationError(inv[i].error)
      /\ inv[i].stage = "construct" => inv[i].error # NoError
      /\ inv[i].stage = "consume" =>
           IF inv[i].answer.hasMs
             THEN inv[i].error.code = "RATE_LIMITED"
             ELSE inv[i].error.code = "RATE_LIMIT_SERVICE_ERROR"
      /\ inv[i].stage \in {"keyGenerator", "resolve"} =>
           inv[i].error = inv[i].raised

\* C28: the steps of an invocation of an annotated field run in the order
\* validate, derive key, acquire, consume, delegate: the key generator is
\* called only for a valid QuotaSpec, a limiter is acquired only with a key,
\* consume is called only on an acquired limiter, and the resolver only
\* after the consume call.
C28_StepsInSpecifiedOrder ==
  \A i \in Invocations :
    inv[i].field \notin UnannotatedFields =>
      /\ inv[i].keyGeneratorCalls > 0 => ValidQuotaSpec(inv[i].field.args)
      /\ inv[i].limiter.id # 0 => inv[i].key # <<>>
      /\ inv[i].consumeCalls > 0 => inv[i].limiter.id # 0
      /\ inv[i].resolveCalls > 0 => inv[i].consumeCalls > 0

\* ---------------------------------------------------------------------
\* the key generators, over pairs of calls
Called(slot, generator) == keyCalls[slot].generator = generator
BothCalled(generator) == Called(1, generator) /\ Called(2, generator)
\* "<parentTypeName>.<fieldName>"
OperationId(info) == info.parentType \o <<".">> \o info.fieldName
SameOperation(a, b) ==
  a.info.parentType = b.info.parentType /\ a.info.fieldName = b.info.fieldName

\* C23: defaultKeyGenerator returns "<parentTypeName>.<fieldName>"; two
\* calls with the same parent type name and field name return the same
\* key, and two calls differing in either name return different keys.
C23_DefaultKeyIsOperationId ==
  /\ \A slot \in {1, 2} :
       Called(slot, "default") =>
         /\ keyCalls[slot].result.thrown = NoError
         /\ keyCalls[slot].result.key = OperationId(keyCalls[slot].info)
  /\ BothCalled("default") =>
       (SameOperation(keyCalls[1], keyCalls[2])
          <=> keyCalls[1].result.key = keyCalls[2].result.key)

\* Query-like "x" with field "xz" against "xx" with field "z": the names
\* differ, the characters run together are the same
C23_Witness ==
  /\ BothCalled("default")
  /\ keyCalls[1].info.parentType = <<"x">>
  /\ keyCalls[1].info.fieldName = <<"x", "z">>
  /\ keyCalls[2].info.parentType = <<"x", "x">>
  /\ keyCalls[2].info.fieldName = <<"z">>
  /\ keyCalls[1].result.key # keyCalls[2].result.key

\* C24: the default key depends on the operation only: two calls for the
\* same operation return the same key whatever the caller context, the
\* source, the resolver arguments and the directive arguments are.
C24_DefaultKeyIgnoresTheCaller ==
  (BothCalled("default") /\ SameOperation(keyCalls[1], keyCalls[2])) =>
    keyCalls[1].result.key = keyCalls[2].result.key

\* two callers, the second one with another source, on one operation
C24_Witness ==
  /\ BothCalled("default")
  /\ SameOperation(keyCalls[1], keyCalls[2])
  /\ keyCalls[1].context.userId # keyCalls[2].context.userId
  /\ keyCalls[1].source # keyCalls[2].source
  /\ keyCalls[1].result.key = keyCalls[2].result.key

\* a string was returned by the resolver of the identity / a non-empty one
IsId(value) == value.kind = "string"
IsNonEmptyId(value) == value.kind = "string" /\ value.chars # <<>>

\* C25 as stated: the per-caller key is "user:" + id + ":" + operation id
\* for every id the resolver returns and "user:anonymous:" + operation id
\* when it returns null or undefined; no call raises; two calls with
\* different ids or different operations return different keys.
C25_UserKeyForEveryId ==
  /\ \A slot \in {1, 2} :
       Called(slot, "user") =>
         /\ keyCalls[slot].result.thrown = NoError
         /\ keyCalls[slot].result.key =
              IF IsId(keyCalls[slot].context.userId)
                THEN <<"user:">> \o keyCalls[slot].context.userId.chars
                       \o <<":">> \o OperationId(keyCalls[slot].info)
                ELSE <<"user:", "anonymous", ":">>
                       \o OperationId(keyCalls[slot].info)
  /\ ( /\ BothCalled("user")
       /\ IsId(keyCalls[1].context.userId)
       /\ IsId(keyCalls[2].context.userId)
       /\ \/ keyCalls[1].context.userId # keyCalls[2].context.userId
          \/ ~SameOperation(keyCalls[1], keyCalls[2]) )
       => keyCalls[1].result.key # keyCalls[2].result.key

\* C25, amended: the per-caller key is "user:" + id + ":" + operation id
\* for a non-empty id and "user:anonymous:" + operation id when the
\* resolver returns null, undefined or the empty string; no call raises;
\* two calls with different non-empty ids or different operations return
\* different keys.
C25_UserKeyForNonEmptyId ==
  /\ \A slot \in {1, 2} :
       Called(slot, "user") =>
         /\ keyCalls[slot].result.thrown = NoError
         /\ keyCalls[slot].result.key =
              IF IsNonEmptyId(keyCalls[slot].context.userId)
                THEN <<"user:">> \o keyCalls[slot].context.userId.chars
                       \o <<":">> \o OperationId(keyCalls[slot].info)
                ELSE <<"user:", "anonymous", ":">>
                       \o OperationId(keyCalls[slot].info)
  /\ ( /\ BothCalled("user")
       /\ IsNonEmptyId(keyCalls[1].context.userId)
       /\ IsNonEmptyId(keyCalls[2].context.userId)
       /\ \/ keyCalls[1].context.userId # keyCalls[2].context.userId
          \/ ~SameOperation(keyCalls[1], keyCalls[2]) )
       => keyCalls[1].result.key # keyCalls[2].result.key

\* a caller whose id is the empty string and a caller without an id on one
\* operation: one key
C25_Witness ==
  /\ BothCalled("user")
  /\ keyCalls[1].context.userId = JsString(<<>>)
  /\ keyCalls[2].context.userId = JsUndefined
  /\ SameOperation(keyCalls[1], keyCalls[2])
  /\ keyCalls[1].result.key = keyCalls[2].result.key

\* C26 as stated: the per-address key is "ip:" + address + ":" + operation
\* id for every address the resolver returns and "ip:unknown:" + operation
\* id when it returns null or undefined; no call raises; two calls with
\* different addresses or different operations return different keys.
C26_IPKeyForEveryAddress ==
  /\ \A slot \in {1, 2} :
       Called(slot, "ip") =>
         /\ keyCalls[slot].result.thrown = NoError
         /\ keyCalls[slot].result.key =
              IF IsId(keyCalls[slot].context.ip)
                THEN <<"ip:">> \o keyCalls[slot].context.ip.chars
                       \o <<":">> \o OperationId(keyCalls[slot].info)
                ELSE <<"ip:", "unknown", ":">>
                       \o OperationId(keyCalls[slot].info)
  /\ ( /\ BothCalled("ip")
       /\ IsId(keyCalls[1].context.ip)
       /\ IsId(keyCalls[2].context.ip)
       /\ \/ keyCalls[1].context.ip # keyCalls[2].context.ip
          \/ ~SameOperation(keyCalls[1], keyCalls[2]) )
       => keyCalls[1].result.key # keyCalls[2].result.key

\* C26, amended: the per-address key is "ip:" + address + ":" + operation
\* id for a non-empty address and "ip:unknown:" + operation id when the
\* resolver returns null, undefined or the empty string; no call raises;
\* two calls with different non-empty addresses or different operations
\* return different keys.
C26_IPKeyForNonEmptyAddress ==
  /\ \A slot \in {1, 2} :
       Called(slot, "ip") =>
         /\ keyCalls[slot].result.thrown = NoError
         /\ keyCalls[slot].result.key =
              IF IsNonEmptyId(keyCalls[slot].context.ip)
                THEN <<"ip:">> \o keyCalls[slot].context.ip.chars
                       \o <<":">> \o OperationId(keyCalls[slot].info)
                ELSE <<"ip:", "unknown", ":">>
                       \o OperationId(keyCalls[slot].info)
  /\ ( /\ BothCalled("ip")
       /\ IsNonEmptyId(keyCalls[1].context.ip)
       /\ IsNonEmptyId(keyCalls[2].context.ip)
       /\ \/ keyCalls[1].context.ip # keyCalls[2].context.ip
          \/ ~SameOperation(keyCalls[1], keyCalls[2]) )
       => keyCalls[1].result.key # keyCalls[2].result.key

\* the address "unknown" and the empty address on one operation: one key
C26_Witness ==
  /\ BothCalled("ip")
  /\ keyCalls[1].context.ip = JsString(<<"unknown">>)
  /\ keyCalls[2].context.ip = JsString(<<>>)
  /\ SameOperation(keyCalls[1], keyCalls[2])
  /\ keyCalls[1].result.key = keyCalls[2].result.key

\* the "name:value" pairs of the identifiers that are neither null nor
\* undefined, in the order given, joined by ":"
RECURSIVE PairsText(_)
PairsText(entries) ==
  IF entries = <<>> THEN <<>>
  ELSE IF entries[1][2].kind \in {"null", "undefined"}
    THEN PairsText(Tail(entries))
  ELSE LET rest == PairsText(Tail(entries))
       IN  entries[1][1] \o <<":">> \o entries[1][2].chars
             \o (IF rest = <<>> THEN <<>> ELSE <<":">> \o rest)

\* the order in which a mapping's names are enumerated: the array-index
\* names by ascending value, least first, then the others as inserted
RECURSIVE EnumerationOrder(_)
EnumerationOrder(entries) ==
  IF \A k \in 1..Len(entries) : ~IsArrayIndex(entries[k][1])
    THEN entries
    ELSE LET least ==
               CHOOSE k \in 1..Len(entries) :
                 /\ IsArrayIndex(entries[k][1])
                 /\ \A j \in 1..Len(entries) :
                      (j # k /\ IsArrayIndex(entries[j][1]))
                        => IndexLess(entries[k][1], entries[j][1])
         IN  <<entries[least]>>
               \o EnumerationOrder(
                    [j \in 1..(Len(entries) - 1) |->
                       IF j < least THEN entries[j] ELSE entries[j + 1]])

\* C27 as stated: the composite key is the "name:value" pairs of the
\* identifiers that are neither null nor undefined, in the mapping's
\* insertion order, joined by ":", followed by ":" + operation id.
C27_CompositeKeyInInsertionOrder ==
  \A slot \in {1, 2} :
    Called(slot, "composite") =>
      /\ keyCalls[slot].result.thrown = NoError
      /\ keyCalls[slot].result.key =
           PairsText(keyCalls[slot].context.identifiers) \o <<":">>
             \o OperationId(keyCalls[slot].info)

\* C27, amended: the pairs are in the mapping's enumeration order, which is
\* the insertion order when no name is a canonical array index; names that
\* are come first, in ascending numeric order.
C27_CompositeKeyInEnumerationOrder ==
  \A slot \in {1, 2} :
    Called(slot, "composite") =>
      /\ keyCalls[slot].result.thrown = NoError
      /\ keyCalls[slot].result.key =
           PairsText(EnumerationOrder(keyCalls[slot].context.identifiers))
             \o <<":">> \o OperationId(keyCalls[slot].info)
      /\ (\A k \in 1..Len(keyCalls[slot].context.identifiers) :
            ~IsArrayIndex(keyCalls[slot].context.identifiers[k][1]))
           => keyCalls[slot].result.key =
                PairsText(keyCalls[slot].context.identifiers) \o <<":">>
                  \o OperationId(keyCalls[slot].info)

\* {a: null, b: "2", c: "3"} gives "b:2:c:3:" + operation id, and a mapping
\* whose identifiers are all dropped gives ":" + operation id
C27_Witness ==
  /\ BothCalled("composite")
  /\ keyCalls[1].context.identifiers =
       <<<<<<"a">>, JsNull>>, <<<<"b">>, JsString(<<"2">>)>>,
         <<<<"c">>, JsString(<<"3">>)>>>>
  /\ keyCalls[1].result.key =
       <<"b", ":", "2", ":", "c", ":", "3", ":">>
         \o OperationId(keyCalls[1].info)
  /\ keyCalls[2].context.identifiers =
       <<<<<<"a">>, JsNull>>, <<<<"b">>, JsUndefined>>>>
  /\ keyCalls[2].result.key = <<":">> \o OperationId(keyCalls[2].info)

\* ---------------------------------------------------------------------
\* the registry under interleaved invocations
\* invocation i runs its synchronous part, up to the consume call, in the
\* step
Acquires(i) == inv[i].pc = "idle" /\ inv'[i].pc = "consume"
\* invocation i waits for its consume call or for its continuation
InFlight(i) == inv[i].pc \in {"consume", "settled"}
NoDuplicateKeys(cache) ==
  \A m, n \in 1..Len(cache) : cache[m].key = cache[n].key => m = n

\* C29: whatever the interleaving of the invocations, every step leaves a
\* registry without two entries for one cache key and with at most 100
\* entries; an invocation that acquires constructs a limiter exactly when
\* its cache key has no entry, and otherwise gets the limiter of the entry,
\* so of two invocations in flight that missed on one absent key only the
\* first constructed a limiter.
C29_AcquireIsOneAtomicStep ==
  [][ /\ limiterCache' # limiterCache =>
           NoDuplicateKeys(limiterCache) /\ NoDuplicateKeys(limiterCache')
      /\ Len(limiterCache') <= MAX_LIMITER_CACHE_SIZE
      /\ instanceCount' \in {instanceCount, instanceCount + 1}
      /\ \A i \in Invocations :
           Acquires(i) =>
             /\ limiterCache'[Len(limiterCache')] =
                  Entry(CacheKey(inv'[i].field.args), inv'[i].limiter)
             /\ IF InRegistry(limiterCache, inv'[i].field.args)
                  THEN /\ instanceCount' = instanceCount
                       /\ inv'[i].limiter =
                            RegistryLimiter(limiterCache, inv'[i].field.args)
                  ELSE /\ instanceCount' = instanceCount + 1
                       /\ inv'[i].limiter.id = instanceCount'
             /\ \A j \in Invocations :
                  ( /\ InFlight(j)
                    /\ inv[j].field.args = inv'[i].field.args
                    /\ \E n \in 1..Len(limiterCache) :
                         limiterCache[n].limiter = inv[j].limiter )
                    => /\ inv'[i].limiter = inv[j].limiter
                       /\ instanceCount' = instanceCount
    ]_vars

\* two invocations of different fields with one QuotaSpec that had no entry
\* in the full registry wait for their consume calls on one limiter
C29_Witness ==
  /\ inv[1].pc = "consume" /\ inv[2].pc = "consume"
  /\ inv[1].field # inv[2].field
  /\ inv[1].field.args = inv[2].field.args
  /\ inv[1].limiter = inv[2].limiter
  /\ inv[1].limiter.id = MAX_LIMITER_CACHE_SIZE + 1
  /\ instanceCount = MAX_LIMITER_CACHE_SIZE + 1
  /\ Len(limiterCache) = MAX_LIMITER_CACHE_SIZE

\* the registry holds the limiter invocation i acquired
Held(cache, i) == \E n \in 1..Len(cache) : cache[n].limiter = inv[i].limiter

\* C30: the step that evicts the entry of a limiter held by an invocation
\* in flight changes neither that invocation nor any consumed count; after
\* it the store can still answer the invocation's consume call, admitting
\* it while the key has points left, and the invocation goes on by that
\* answer: an admitted call is followed by one call of the resolver, a
\* rejected one by the failure of the invocation without a resolver call.
C30_EvictedLimiterStillServes ==
  [][ \A i \in Invocations :
        /\ (InFlight(i) /\ Held(limiterCache, i) /\ ~Held(limiterCache', i))
             => inv'[i] = inv[i] /\ consumed' = consumed
        /\ (inv[i].pc = "consume" /\ ~Held(limiterCache, i)) =>
             /\ ENABLED StoreConsumeWith(i, FullRejections)
             /\ StoreAdmits(consumed[inv[i].key], inv[i].limiter)
                  => ENABLED StoreConsumeWith(i, {})
             /\ inv'[i] # inv[i] =>
                  /\ inv'[i].pc = "settled"
                  /\ consumed'[inv[i].key] =
                       IF inv'[i].answer = NoError
                         THEN consumed[inv[i].key] + 1
                         ELSE consumed[inv[i].key]
        /\ (inv[i].pc = "settled" /\ ~Held(limiterCache, i)) =>
             /\ ENABLED Resume(i)
             /\ inv'[i] # inv[i] =>
                  IF inv[i].answer = NoError
                    THEN /\ inv'[i].resolveCalls = 1
                         /\ inv'[i].pc \in {"done", "resolve"}
                         /\ inv'[i].stage \in {"none", "resolve"}
                    ELSE /\ inv'[i].resolveCalls = 0
                         /\ inv'[i].pc = "done"
                         /\ inv'[i].stage = "consume"
                         /\ inv'[i].error # NoError
    ]_vars

\* the first invocation's consume call was admitted after a miss of the
\* second invocation had evicted the entry of its limiter
C30_Witness ==
  /\ inv[1].pc = "settled"
  /\ inv[1].answer = NoError
  /\ inv[1].limiter.id = 1
  /\ ~Held(limiterCache, 1)
  /\ consumed[inv[1].key] = 1
  /\ inv[2].pc = "consume"
  /\ Held(limiterCache, 2)

\* ---------------------------------------------------------------------
\* invocation i of an annotated field runs its synchronous part in the step
Starts(i) ==
  /\ inv[i].pc = "idle"
  /\ inv'[i].pc # "idle"
  /\ inv'[i].field \notin UnannotatedFields

\* C31: every invocation of a wrapped operation validates its QuotaSpec,
\* and does so before the registry is read or changed: an invocation with
\* an invalid QuotaSpec ends in the validator's error, leaves the entries
\* and their order as they were and constructs no limiter, and the registry
\* changes only in invocations whose QuotaSpec is valid.
C31_ValidationOnEveryInvocation ==
  [][ \A i \in Invocations :
        Starts(i) =>
          /\ ~ValidQuotaSpec(inv'[i].field.args) =>
               /\ inv'[i].pc = "done"
               /\ inv'[i].stage = "validate"
               /\ IsValidationError(inv'[i].error)
               /\ limiterCache' = limiterCache
               /\ instanceCount' = instanceCount
          /\ (limiterCache' # limiterCache \/ instanceCount' # instanceCount)
               => ValidQuotaSpec(inv'[i].field.args)
    ]_vars

\* C32: an invocation whose consume was rejected with a numeric
\* msBeforeNext ends with RATE_LIMITED and status 429, never with
\* RATE_LIMIT_SERVICE_ERROR, also when the message of the rejection contains
\* "Redis": the error the inner catch throws has no "Redis" in its message
\* and is what the invocation is rejected with.
C32_QuotaRejectionNeverServiceError ==
  \A i \in Invocations :
    (inv[i].pc = "done" /\ inv[i].answer # NoError /\ inv[i].answer.hasMs) =>
      /\ inv[i].raised.code = "RATE_LIMITED"
      /\ ~includes(inv[i].raised.message, "Redis")
      /\ inv[i].error = inv[i].raised
      /\ inv[i].error.status = 429
      /\ inv[i].error.code # "RATE_LIMIT_SERVICE_ERROR"

\* a rejection with msBeforeNext = 1500 whose message starts with "Redis"
\* was answered with RATE_LIMITED, retry after 2 s
C32_Witness ==
  /\ inv[1].pc = "done"
  /\ inv[1].answer.hasMs
  /\ inv[1].answer.msBeforeNext = 1500
  /\ includes(inv[1].answer.message, "Redis")
  /\ inv[1].error.code = "RATE_LIMITED"
  /\ inv[1].error.retryAfter = 2

\* C33: a getLimiter call in which the limiter's constructor throws leaves
\* the registry as it was before the call, whatever its size: the same
\* entries in the same order, and no limiter counted as constructed.
C33_FailedConstructionLeavesRegistry ==
  [][(calls' = calls + 1 /\ lastCall'.thrown = ConstructorError) =>
       /\ limiterCache' = limiterCache
       /\ instanceCount' = instanceCount]_vars

====
